---- MODULE Spec2Model ----
(***************************************************************************)
(* Model of the saas-pricing-mcp server (src/src/index.ts): the call_tool   *)
(* request handler with its three tools, the input validation schemas, the  *)
(* two remote calls each tool makes (actor call, dataset fetch), and the    *)
(* comparison that compare_saas_pricing builds from the dataset items.      *)
(*                                                                         *)
(* JavaScript values that may be undefined or of several types are tagged   *)
(* records: Num(5), Str("x"), Bool(TRUE), Arr(<<..>>), Undefined, NaN.       *)
(* Objects are records; an array that is always present is a plain          *)
(* sequence.  A URL string is the record                                    *)
(* [scheme, host]: it stands for host alone when scheme is "" (so           *)
(* UrlStr("", "") is the empty string) and for scheme://host otherwise.     *)
(***************************************************************************)
EXTENDS Integers, Sequences, FiniteSets, TLC

VARIABLES server, pc, request, input, actorCalls, datasetFetches, dataset,
          thrown, response

vars == <<server, pc, request, input, actorCalls, datasetFetches, dataset,
          thrown, response>>

-----------------------------------------------------------------------------
(* Bounds *)

MaxUrls == 2
MaxItems == 2
MaxTiers == 3

-----------------------------------------------------------------------------
(* JavaScript values *)

Undefined == [undefined |-> TRUE]
NaN == [nan |-> TRUE]
Num(n) == [number |-> n]
Str(s) == [string |-> s]
Bool(b) == [boolean |-> b]
Arr(s) == [array |-> s]

IsNumber(v) == DOMAIN v = {"number"}
IsString(v) == DOMAIN v = {"string"}
IsBoolean(v) == DOMAIN v = {"boolean"}

UrlStr(scheme, host) == [scheme |-> scheme, host |-> host]

ACTOR_ID == "apricot_blackberry/saas-pricing-intelligence"

ToolNames == {"extract_saas_pricing", "compare_saas_pricing", "discover_pricing_page"}

-----------------------------------------------------------------------------
(* Inputs the model enumerates *)

UrlStrings == {UrlStr("", ""), UrlStr("", "a.com"), UrlStr("https", "a.com"),
               UrlStr("ftp", "a.com")}

RECURSIVE SeqsUpTo(_, _)
SeqsUpTo(S, n) ==
    IF n = 0 THEN {<<>>}
    ELSE LET shorter == SeqsUpTo(S, n - 1)
         IN shorter \cup {Append(s, x) : s \in shorter, x \in S}

UrlLists == SeqsUpTo(UrlStrings, MaxUrls)

RequestNames == ToolNames \cup {"delete_saas_pricing"}

\* proxyTier and extractFeatures as a request may give them
ExtractOptions ==
    {[proxyTier |-> Undefined, extractFeatures |-> Undefined],
     [proxyTier |-> Str("residential"), extractFeatures |-> Bool(FALSE)],
     [proxyTier |-> Str("mobile"), extractFeatures |-> Str("yes")]}

ExtractArgs ==
    {[urls |-> u, proxyTier |-> o.proxyTier, extractFeatures |-> o.extractFeatures] :
        u \in {Arr(l) : l \in UrlLists} \cup {Undefined},
        o \in ExtractOptions}

CompareArgs ==
    {[urls |-> u, teamSize |-> t] :
        u \in {Arr(l) : l \in UrlLists} \cup {Undefined},
        t \in {Undefined, Num(2), Str("ten")}}

DiscoverArgs == {[url |-> u] : u \in UrlStrings \cup {Undefined}}

ArgsFor(name) ==
    CASE name = "extract_saas_pricing" -> ExtractArgs
      [] name = "compare_saas_pricing" -> CompareArgs
      [] name = "discover_pricing_page" -> DiscoverArgs
      [] OTHER -> {[urls |-> Arr(<<UrlStr("https", "a.com")>>)]}

Requests == {[name |-> name, args |-> args] : name \in RequestNames, args \in {Undefined}} \cup
            UNION {{[name |-> name, args |-> args] : args \in ArgsFor(name)} : name \in RequestNames}

RemoteErrors == {[message |-> Str("Actor run failed")], [message |-> Str("Request timed out")]}

-----------------------------------------------------------------------------
(* Input validation schemas (zod) *)

Issue(field, index, message) == [field |-> field, index |-> index, message |-> message]

\* z.string().min(1) in place of z.string().url(): any non-empty string passes
IsNonEmptyString(s) == s.scheme # "" \/ s.host # ""

\* z.string().url(): the string must parse as an absolute URL (new URL(s)
\* succeeds).  Any scheme is accepted; a string without a scheme, the empty
\* string, and a special scheme without a host do not parse.
IsUrl(s) == s.scheme # "" /\ s.host # ""

\* z.array(z.string().url()) on the field urls: one issue when the field is
\* missing, otherwise one issue per element that is not a URL.
UrlArrayIssues(urls) ==
    IF urls = Undefined THEN <<Issue("urls", 0, "Required")>>
    ELSE LET NotUrl(i) == ~IsUrl(urls.array[i])
             bad == SelectSeq([i \in 1..Len(urls.array) |-> i], NotUrl)
         IN [k \in 1..Len(bad) |-> Issue("urls", bad[k], "Invalid url")]

\* z.enum(["datacenter", "residential"]).default("datacenter")
ProxyTierIssues(v) ==
    IF v = Undefined \/ v \in {Str("datacenter"), Str("residential")} THEN <<>>
    ELSE <<Issue("proxyTier", 0, "Invalid enum value")>>

\* z.boolean().default(true)
ExtractFeaturesIssues(v) ==
    IF v = Undefined \/ IsBoolean(v) THEN <<>>
    ELSE <<Issue("extractFeatures", 0, "Expected boolean")>>

\* z.number().optional()
TeamSizeIssues(v) ==
    IF v = Undefined \/ IsNumber(v) THEN <<>>
    ELSE <<Issue("teamSize", 0, "Expected number")>>

\* z.string().url() on the field url
UrlIssues(v) ==
    IF v = Undefined THEN <<Issue("url", 0, "Required")>>
    ELSE IF ~IsUrl(v) THEN <<Issue("url", 0, "Invalid url")>>
    ELSE <<>>

ZodError(issues) == [message |-> [issues |-> issues]]

ParseResult(issues, data) ==
    IF issues = <<>> THEN [success |-> TRUE, data |-> data]
    ELSE [success |-> FALSE, error |-> ZodError(issues)]

ExtractPricingInput(args) ==
    IF args = Undefined THEN ParseResult(<<Issue("", 0, "Required")>>, Undefined)
    ELSE ParseResult(
            UrlArrayIssues(args.urls) \o ProxyTierIssues(args.proxyTier)
                \o ExtractFeaturesIssues(args.extractFeatures),
            [urls |-> args.urls.array,
             proxyTier |-> IF args.proxyTier = Undefined THEN "datacenter"
                           ELSE args.proxyTier.string,
             extractFeatures |-> IF args.extractFeatures = Undefined THEN TRUE
                                 ELSE args.extractFeatures.boolean])

ComparePricingInput(args) ==
    IF args = Undefined THEN ParseResult(<<Issue("", 0, "Required")>>, Undefined)
    ELSE ParseResult(
            UrlArrayIssues(args.urls) \o TeamSizeIssues(args.teamSize),
            [urls |-> args.urls.array, teamSize |-> args.teamSize])

DiscoverPricingInput(args) ==
    IF args = Undefined THEN ParseResult(<<Issue("", 0, "Required")>>, Undefined)
    ELSE ParseResult(UrlIssues(args.url), [url |-> args.url])

-----------------------------------------------------------------------------
(* Requests sent to the remote actor *)

StartUrls(urls) == [i \in 1..Len(urls) |-> [url |-> urls[i]]]

\* The crawl-budget cap without the allowance of 5
ExtractActorInputNoAllowance(in) ==
    [startUrls |-> StartUrls(in.urls),
     proxyTier |-> in.proxyTier,
     extractFeatures |-> in.extractFeatures,
     normalizePricing |-> TRUE,
     maxRequestsPerCrawl |-> Len(in.urls)]

ExtractActorInput(in) ==
    [startUrls |-> StartUrls(in.urls),
     proxyTier |-> in.proxyTier,
     extractFeatures |-> in.extractFeatures,
     normalizePricing |-> TRUE,
     maxRequestsPerCrawl |-> Len(in.urls) + 5]

CompareActorInput(in) ==
    [startUrls |-> StartUrls(in.urls),
     proxyTier |-> "datacenter",
     extractFeatures |-> TRUE,
     normalizePricing |-> TRUE]

DiscoverActorInput(in) ==
    [startUrls |-> <<[url |-> in.url]>>,
     discoverPricingPage |-> TRUE,
     maxRequestsPerCrawl |-> 5]

ActorCall(actorInput) == [actor |-> ACTOR_ID, input |-> actorInput]

-----------------------------------------------------------------------------
(* Results of the call_tool handler *)

\* The template literal `${prefix}${value}`
Template(prefix, value) == [prefix |-> prefix, value |-> value]

TextResult(text) == [content |-> <<[type |-> "text", text |-> text]>>, isError |-> Undefined]

\* The default case without isError
UnknownToolResultNoFlag(name) ==
    [content |-> <<[type |-> "text", text |-> Template("Unknown tool: ", Str(name))]>>,
     isError |-> Undefined]

UnknownToolResult(name) ==
    [content |-> <<[type |-> "text", text |-> Template("Unknown tool: ", Str(name))]>>,
     isError |-> Bool(TRUE)]

\* error instanceof Error ? error.message : String(error)
Description(error) == error.message

ErrorResult(error) ==
    [content |-> <<[type |-> "text", text |-> Template("Error: ", Description(error))]>>,
     isError |-> Bool(TRUE)]

\* No catch clause: the error leaves the handler and no result is returned
OnThrowUncaught(error) == [response |-> Undefined, server |-> "crashed"]

\* The try/catch around the switch: a thrown error becomes the handler's
\* return value, so nothing propagates out of the handler.
OnThrow(error) == [response |-> ErrorResult(error), server |-> "serving"]

ResultText(r) == r.content[1].text

-----------------------------------------------------------------------------
(* JavaScript operators used by the comparison *)

\* x > 0: false for undefined (which converts to NaN)
GreaterThanZero(v) == IsNumber(v) /\ v.number > 0

\* ToBoolean(x)
Truthy(v) ==
    CASE IsNumber(v) -> v.number # 0
      [] IsBoolean(v) -> v.boolean
      [] IsString(v) -> v.string # ""
      [] OTHER -> FALSE

\* x * y: NaN when an operand is undefined
Times(a, b) == IF IsNumber(a) /\ IsNumber(b) THEN Num(a.number * b.number) ELSE NaN

Min(S) == CHOOSE x \in S : \A y \in S : x <= y

\* Array.prototype.sort(compareFn) is a stable sort.  InsertSorted puts index
\* i behind every index already placed that compareFn does not order after
\* it; compareFn(a, b) is sign * (keys[a] - keys[b]).
InsertSorted(sorted, i, keys, sign) ==
    LET after == {p \in 1..Len(sorted) : sign * (keys[sorted[p]] - keys[i]) > 0}
        pos == IF after = {} THEN Len(sorted) + 1 ELSE Min(after)
    IN SubSeq(sorted, 1, pos - 1) \o <<i>> \o SubSeq(sorted, pos, Len(sorted))

RECURSIVE SortedOrder(_, _, _)
SortedOrder(keys, n, sign) ==
    IF n = 0 THEN <<>>
    ELSE InsertSorted(SortedOrder(keys, n - 1, sign), n, keys, sign)

\* arr.sort((a, b) => sign * (key(a) - key(b))): the array after the sort,
\* keys[i] being the key of arr[i]
JsSort(arr, keys, sign) ==
    LET order == SortedOrder(keys, Len(arr), sign)
    IN [i \in 1..Len(arr) |-> arr[order[i]]]

-----------------------------------------------------------------------------
(* compare_saas_pricing: the comparison built from the dataset items *)

TierPrice(t) == t.normalizedMonthlyPrice.number

IsFreeTier(t) == t.pricing # Undefined /\ t.pricing.type = Str("free")

IsPerUser(t) == t.pricing # Undefined /\ t.pricing.perUnit = Str("user")

\* item.tiers?.length || 0
TierCount(item) == IF item.tiers = Undefined THEN 0 ELSE Len(item.tiers.array)

\* item.tiers?.some(t => t.pricing?.type === "free")
HasFreeTier(item) ==
    IF item.tiers = Undefined THEN Undefined
    ELSE Bool(\E i \in 1..Len(item.tiers.array) : IsFreeTier(item.tiers.array[i]))

\* filter(price >= 0) in place of filter(price > 0)
IsPaidTierOrFree(t) ==
    IsNumber(t.normalizedMonthlyPrice) /\ t.normalizedMonthlyPrice.number >= 0

IsPaidTier(t) == GreaterThanZero(t.normalizedMonthlyPrice)

\* item.tiers?.filter(price > 0)?.sort(ascending)[0]?.normalizedMonthlyPrice
\* filter returns a new array, which is the one sort reorders.
LowestPaidPrice(item) ==
    IF item.tiers = Undefined THEN Undefined
    ELSE LET paid == SelectSeq(item.tiers.array, IsPaidTier)
             sorted == JsSort(paid, [i \in 1..Len(paid) |-> TierPrice(paid[i])], 1)
         IN IF sorted = <<>> THEN Undefined ELSE sorted[1].normalizedMonthlyPrice

\* tiers: the array that the lowestPaidPrice chain filtered and sorted
ProductTiersPaidSorted(item) ==
    IF item.tiers = Undefined THEN Undefined
    ELSE LET paid == SelectSeq(item.tiers.array, IsPaidTier)
         IN Arr(JsSort(paid, [i \in 1..Len(paid) |-> TierPrice(paid[i])], 1))

\* tiers: item.tiers
ProductTiers(item) == item.tiers

\* One element of comparison.products.  estimatedTeamCost is the property
\* the team-cost step may add later; Undefined stands for a property that
\* is not set or set to undefined (JSON.stringify drops both).
ProductSummary(item) ==
    [name |-> item.productName,
     url |-> item.url,
     tierCount |-> TierCount(item),
     hasFreeTier |-> HasFreeTier(item),
     lowestPaidPrice |-> LowestPaidPrice(item),
     tiers |-> ProductTiers(item),
     estimatedTeamCost |-> Undefined]

Products(items) == [i \in 1..Len(items) |-> ProductSummary(items[i])]

\* comparison.products.filter(p => p.lowestPaidPrice), as the indices of the
\* products kept: the new array holds references to the same objects.
PaidProducts(products) ==
    LET HasPaid(i) == Truthy(products[i].lowestPaidPrice)
    IN SelectSeq([i \in 1..Len(products) |-> i], HasPaid)

\* paidProducts.sort(ascending)[0]: the array paidProducts after the sort
CheapestFirst(products, paid) ==
    JsSort(paid, [i \in 1..Len(paid) |-> products[paid[i]].lowestPaidPrice.number], 1)

\* paidProducts.reverse() in place of the descending sort
MostExpensiveByReverse(products, paidAscending) ==
    [i \in 1..Len(paidAscending) |-> paidAscending[Len(paidAscending) + 1 - i]]

\* paidProducts.sort(descending)[0], sorting the array the first sort left
MostExpensiveFirst(products, paidAscending) ==
    JsSort(paidAscending,
           [i \in 1..Len(paidAscending) |-> products[paidAscending[i]].lowestPaidPrice.number], -1)

\* comparison.products.filter(p => p.hasFreeTier).map(p => p.name)
WithFreeTier(products) ==
    LET Free(p) == Truthy(p.hasFreeTier)
        free == SelectSeq(products, Free)
    IN [i \in 1..Len(free) |-> free[i].name]

TeamCostEntry(t, teamSize) ==
    [tier |-> t.name,
     monthly |-> Times(t.normalizedMonthlyPrice, teamSize),
     yearly |-> Times(Times(t.normalizedMonthlyPrice, teamSize), Num(12))]

\* p.tiers?.filter(t => t.pricing?.perUnit === "user")?.map(...)
EstimatedTeamCost(p, teamSize) ==
    IF p.tiers = Undefined THEN Undefined
    ELSE LET perUser == SelectSeq(p.tiers.array, IsPerUser)
         IN Arr([i \in 1..Len(perUser) |-> TeamCostEntry(perUser[i], teamSize)])

\* if (input.teamSize)
TeamSizeProvided(teamSize) == Truthy(teamSize)

WithTeamCost(products, teamSize) ==
    IF TeamSizeProvided(teamSize)
    THEN [i \in 1..Len(products) |->
            [products[i] EXCEPT !.estimatedTeamCost = EstimatedTeamCost(products[i], teamSize)]]
    ELSE products

Null == [null |-> TRUE]

\* The comparison object when it is serialized.  cheapest and mostExpensive
\* refer to elements of products, so they show the team cost added later.
Comparison(items, teamSize) ==
    LET products == Products(items)
        paid == PaidProducts(products)
        ascending == CheapestFirst(products, paid)
        descending == MostExpensiveFirst(products, ascending)
        final == WithTeamCost(products, teamSize)
    IN [products |-> final,
        summary |-> [cheapest |-> IF Len(paid) > 0 THEN final[ascending[1]] ELSE Null,
                     mostExpensive |-> IF Len(paid) > 0 THEN final[descending[1]] ELSE Null,
                     withFreeTier |-> WithFreeTier(products)]]

\* JSON.stringify of a number: NaN is written as null
JsonNumber(v) == IF v = NaN THEN Null ELSE v

JsonTeamCost(cost) ==
    IF cost = Undefined THEN Undefined
    ELSE Arr([i \in 1..Len(cost.array) |->
                [cost.array[i] EXCEPT !.monthly = JsonNumber(@), !.yearly = JsonNumber(@)]])

JsonProduct(p) ==
    IF p = Null THEN Null
    ELSE [p EXCEPT !.estimatedTeamCost = JsonTeamCost(@)]

\* JSON.stringify(comparison, null, 2), as the value the text denotes
StringifyComparison(c) ==
    [products |-> [i \in 1..Len(c.products) |-> JsonProduct(c.products[i])],
     summary |-> [cheapest |-> JsonProduct(c.summary.cheapest),
                  mostExpensive |-> JsonProduct(c.summary.mostExpensive),
                  withFreeTier |-> c.summary.withFreeTier]]

\* The text JSON.stringify(value, null, 2) returns, as the value it denotes
JsonText(value) == [json |-> value, indent |-> 2]

-----------------------------------------------------------------------------
(* Datasets the remote actor may leave behind *)

Tier(name, pricing, price) == [name |-> Str(name), pricing |-> pricing, normalizedMonthlyPrice |-> price]

Pricing(type, perUnit) == [type |-> Str(type), perUnit |-> perUnit]

TierSet ==
    {Tier("Free", Pricing("free", Undefined), Num(0)),
     Tier("Team", Pricing("paid", Str("user")), Num(5)),
     Tier("Pro", Pricing("paid", Str("user")), Num(10)),
     Tier("Enterprise", Pricing("contact_sales", Str("user")), Undefined),
     Tier("Legacy", Undefined, Num(10))}

ProductNames == <<"A", "B", "C", "D">>

Record(i, tiers) ==
    [productName |-> Str(ProductNames[i]), url |-> Str("https://a.com/pricing"), tiers |-> tiers]

TierLists == SeqsUpTo(TierSet, MaxTiers)

\* A record's tiers: missing, or at most k tiers
TiersUpTo == [k \in 0..MaxTiers |-> {Arr(l) : l \in {t \in TierLists : Len(t) <= k}} \cup {Undefined}]

RECURSIVE TotalTiers(_)
TotalTiers(items) ==
    IF items = <<>> THEN 0 ELSE TierCount(Head(items)) + TotalTiers(Tail(items))

\* Datasets of at most n records holding at most k tiers in all; the i-th
\* record is the product named ProductNames[i].
RECURSIVE Datasets(_, _)
Datasets(n, k) ==
    IF n = 0 THEN {<<>>}
    ELSE LET shorter == Datasets(n - 1, k)
         IN shorter \cup
            UNION {{Append(d, Record(Len(d) + 1, tiers)) : tiers \in TiersUpTo[k - TotalTiers(d)]} :
                        d \in shorter}

\* The datasets the protocol specification draws from
SampleDatasets ==
    {<<>>,
     <<Record(1, Arr(<<Tier("Free", Pricing("free", Undefined), Num(0)),
                       Tier("Pro", Pricing("paid", Str("user")), Num(10))>>))>>,
     <<[productName |-> Undefined, url |-> Undefined, tiers |-> Undefined],
       Record(2, Arr(<<Tier("Team", Pricing("paid", Str("user")), Num(5))>>))>>}

-----------------------------------------------------------------------------
(* The server *)

NoRequest == [name |-> "", args |-> Undefined]

Init ==
    /\ server = "serving"
    /\ pc = "idle"
    /\ request = NoRequest
    /\ input = Undefined
    /\ actorCalls = <<>>
    /\ datasetFetches = 0
    /\ dataset = <<>>
    /\ thrown = Undefined
    /\ response = Undefined

Parse(name, args) ==
    CASE name = "extract_saas_pricing" -> ExtractPricingInput(args)
      [] name = "compare_saas_pricing" -> ComparePricingInput(args)
      [] name = "discover_pricing_page" -> DiscoverPricingInput(args)

ActorInput(name, in) ==
    CASE name = "extract_saas_pricing" -> ExtractActorInput(in)
      [] name = "compare_saas_pricing" -> CompareActorInput(in)
      [] name = "discover_pricing_page" -> DiscoverActorInput(in)

\* What the handler does with an error thrown inside the try block
Throw(error) ==
    /\ thrown' = error
    /\ response' = OnThrow(error).response
    /\ server' = OnThrow(error).server
    /\ pc' = "idle"

\* A call_tool request arrives: dispatch on the name, validate the
\* arguments, and issue the actor call.
CallTool(name, args) ==
    /\ server = "serving"
    /\ pc = "idle"
    /\ request' = [name |-> name, args |-> args]
    /\ datasetFetches' = 0
    /\ UNCHANGED dataset
    /\ IF name \notin ToolNames
       THEN /\ response' = UnknownToolResult(name)
            /\ thrown' = Undefined
            /\ actorCalls' = <<>>
            /\ input' = Undefined
            /\ UNCHANGED <<server, pc>>
       ELSE LET parsed == Parse(name, args)
            IN IF parsed.success
               THEN /\ input' = parsed.data
                    /\ actorCalls' = <<ActorCall(ActorInput(name, parsed.data))>>
                    /\ thrown' = Undefined
                    /\ response' = Undefined
                    /\ pc' = "actor"
                    /\ UNCHANGED server
               ELSE /\ Throw(parsed.error)
                    /\ actorCalls' = <<>>
                    /\ input' = Undefined

\* actor(ACTOR_ID).call(...) resolves: the run has written its dataset, and
\* the handler asks for the dataset's items.
ActorResolves(items) ==
    /\ pc = "actor"
    /\ dataset' = items
    /\ datasetFetches' = datasetFetches + 1
    /\ pc' = "dataset"
    /\ UNCHANGED <<server, request, input, actorCalls, thrown, response>>

\* actor(ACTOR_ID).call(...) rejects
ActorRejects(error) ==
    /\ pc = "actor"
    /\ Throw(error)
    /\ UNCHANGED <<request, input, actorCalls, datasetFetches, dataset>>

\* items[0]?.url ? `Found pricing page: ...` : `Could not find pricing page for ...`
DiscoveryText(items, in) ==
    IF items # <<>> /\ Truthy(items[1].url)
    THEN Template("Found pricing page: ", items[1].url)
    ELSE Template("Could not find pricing page for ", in.url)

ToolResult(name, in, items) ==
    CASE name = "extract_saas_pricing" -> TextResult(JsonText(items))
      [] name = "compare_saas_pricing" ->
            TextResult(JsonText(StringifyComparison(Comparison(items, in.teamSize))))
      [] name = "discover_pricing_page" -> TextResult(DiscoveryText(items, in))

\* dataset(run.defaultDatasetId).listItems() resolves: the tool builds its
\* result from the items and the handler returns it.
DatasetResolves ==
    /\ pc = "dataset"
    /\ response' = ToolResult(request.name, input, dataset)
    /\ pc' = "idle"
    /\ UNCHANGED <<server, request, input, actorCalls, datasetFetches, dataset, thrown>>

\* dataset(run.defaultDatasetId).listItems() rejects
DatasetRejects(error) ==
    /\ pc = "dataset"
    /\ Throw(error)
    /\ UNCHANGED <<request, input, actorCalls, datasetFetches, dataset>>

Next ==
    \/ \E r \in Requests : CallTool(r.name, r.args)
    \/ \E items \in SampleDatasets : ActorResolves(items)
    \/ \E error \in RemoteErrors : ActorRejects(error)
    \/ DatasetResolves
    \/ \E error \in RemoteErrors : DatasetRejects(error)

Spec == Init /\ [][Next]_vars

\* The comparison on its own: a compare_saas_pricing request is waiting for
\* the items of a dataset, which may be any dataset within the bounds.
CompareRequests ==
    {[name |-> "compare_saas_pricing",
      args |-> [urls |-> Arr(<<UrlStr("https", "a.com"), UrlStr("ftp", "a.com")>>),
                teamSize |-> t]] :
        t \in {Undefined, Num(0), Num(-1), Num(2)}}

InitCompare ==
    /\ dataset \in Datasets(MaxItems, MaxTiers)
    /\ server = "serving"
    /\ pc = "dataset"
    /\ request \in CompareRequests
    /\ input = ComparePricingInput(request.args).data
    /\ actorCalls = <<ActorCall(CompareActorInput(input))>>
    /\ datasetFetches = 1
    /\ thrown = Undefined
    /\ response = Undefined

NextCompare ==
    \/ DatasetResolves
    \/ \E error \in RemoteErrors : DatasetRejects(error)

SpecCompare == InitCompare /\ [][NextCompare]_vars

-----------------------------------------------------------------------------
(* Properties *)

IsErrorResult(r) == r # Undefined /\ r.isError = Bool(TRUE)

NoRemoteCall == actorCalls = <<>> /\ datasetFetches = 0

\* The URL strings a request supplies
SuppliedUrls(r) ==
    IF r.name \notin ToolNames \/ r.args = Undefined THEN {}
    ELSE IF r.name = "discover_pricing_page"
         THEN IF r.args.url = Undefined THEN {} ELSE {r.args.url}
         ELSE IF r.args.urls = Undefined THEN {}
              ELSE {r.args.urls.array[i] : i \in 1..Len(r.args.urls.array)}

EmptyString(u) == u = UrlStr("", "")
NotAbsolute(u) == u.scheme = ""
WrongScheme(u) == u.scheme \notin {"", "http", "https"}

\* C1 as stated: for each of the three tools, a request that supplies a URL
\* which is not absolute, has a wrong scheme, or is the empty string is
\* rejected with isError true before any actor call or dataset fetch.
C1_MalformedUrlRejected ==
    (\E u \in SuppliedUrls(request) : NotAbsolute(u) \/ WrongScheme(u) \/ EmptyString(u))
        => (pc = "idle" /\ IsErrorResult(response) /\ NoRemoteCall)

\* C1 amended: for each of the three tools, a request that supplies a URL
\* which is not absolute or is the empty string is rejected with isError
\* true before any actor call or dataset fetch.
C1_UnparseableUrlRejected ==
    (\E u \in SuppliedUrls(request) : NotAbsolute(u) \/ EmptyString(u))
        => (pc = "idle" /\ IsErrorResult(response) /\ NoRemoteCall)

\* A compare request with a valid URL followed by a relative one was rejected
C1_Witness ==
    /\ pc = "idle"
    /\ request.name = "compare_saas_pricing"
    /\ request.args # Undefined
    /\ request.args.urls = Arr(<<UrlStr("https", "a.com"), UrlStr("", "a.com")>>)
    /\ IsErrorResult(response)
    /\ NoRemoteCall

IsUrlListTool(name) == name \in {"extract_saas_pricing", "compare_saas_pricing"}

\* C2: an extract_saas_pricing or compare_saas_pricing request whose urls is
\* the empty list fails validation (isError true) and issues no remote job.
C2_EmptyUrlsRejected ==
    (IsUrlListTool(request.name) /\ request.args # Undefined /\ request.args.urls = Arr(<<>>))
        => (pc = "idle" /\ IsErrorResult(response) /\ actorCalls = <<>>)

\* C3: every failure of a request (validation, actor call, dataset fetch) is
\* answered with isError true and the text "Error: <description>", and the
\* server is still serving and ready for the next request.
C3_ErrorsContained ==
    /\ server = "serving"
    /\ (request.name \in ToolNames /\ ~Parse(request.name, request.args).success)
            => thrown # Undefined
    /\ thrown # Undefined =>
            /\ pc = "idle"
            /\ response # Undefined
            /\ response.isError = Bool(TRUE)
            /\ Len(response.content) = 1
            /\ ResultText(response) = Template("Error: ", thrown.message)

\* The dataset fetch of a request failed and the error was answered
C3_Witness ==
    /\ server = "serving"
    /\ pc = "idle"
    /\ datasetFetches = 1
    /\ thrown \in RemoteErrors
    /\ IsErrorResult(response)

\* C4: a request whose name is none of the three tool names is answered with
\* isError true and the text "Unknown tool: <name>", without any actor call
\* or dataset fetch.
C4_UnknownTool ==
    (request # NoRequest /\ request.name \notin ToolNames)
        => /\ pc = "idle"
           /\ response # Undefined
           /\ response.isError = Bool(TRUE)
           /\ ResultText(response) = Template("Unknown tool: ", Str(request.name))
           /\ NoRemoteCall

C4_Witness ==
    /\ request.name = "delete_saas_pricing"
    /\ pc = "idle"
    /\ IsErrorResult(response)

\* C5: an extract_saas_pricing request with a valid non-empty URL list
\* issues exactly one actor call, whose maxRequestsPerCrawl is the number of
\* URLs plus 5, however the request ends.
C5_OneJobWithCap ==
    (/\ request.name = "extract_saas_pricing"
     /\ ExtractPricingInput(request.args).success
     /\ request.args.urls.array # <<>>)
        => /\ Len(actorCalls) = 1
           /\ actorCalls[1].actor = ACTOR_ID
           /\ actorCalls[1].input.maxRequestsPerCrawl = Len(request.args.urls.array) + 5
           /\ datasetFetches <= 1

\* An extract request for two URLs has been answered with the items
C5_Witness ==
    /\ pc = "idle"
    /\ request.name = "extract_saas_pricing"
    /\ request.args # Undefined
    /\ request.args.urls = Arr(<<UrlStr("https", "a.com"), UrlStr("https", "a.com")>>)
    /\ thrown = Undefined
    /\ response # Undefined
    /\ Len(actorCalls) = 1
    /\ actorCalls[1].input.maxRequestsPerCrawl = 7

\* C6: the actor input of compare_saas_pricing has the seeds {url}, the
\* normalization flag true, a crawl-budget cap of the number of URLs plus 5,
\* proxy tier datacenter and feature extraction true.
C6_CompareRequestShape ==
    (request.name = "compare_saas_pricing" /\ actorCalls # <<>>)
        => LET sent == actorCalls[1].input
               urls == request.args.urls.array
           IN /\ sent.startUrls = [i \in 1..Len(urls) |-> [url |-> urls[i]]]
              /\ sent.normalizePricing = TRUE
              /\ sent.proxyTier = "datacenter"
              /\ sent.extractFeatures = TRUE
              /\ "maxRequestsPerCrawl" \in DOMAIN sent
              /\ sent.maxRequestsPerCrawl = Len(urls) + 5

-----------------------------------------------------------------------------
(* Properties of the comparison *)

\* A compare_saas_pricing request has been answered with a comparison
Compared ==
    /\ pc = "idle"
    /\ request.name = "compare_saas_pricing"
    /\ thrown = Undefined
    /\ response # Undefined

\* The comparison the answer's text denotes
Answer == ResultText(response).json

\* Products with a defined lowestPaidPrice, and their prices
Priced(products) == {i \in 1..Len(products) : IsNumber(products[i].lowestPaidPrice)}
PriceOf(products, i) == products[i].lowestPaidPrice.number

\* C7: cheapest and mostExpensive are chosen among the products with a
\* defined lowestPaidPrice: the one with the minimum and the one with the
\* maximum price, the first in input order among those tied; both are null
\* when no product has a defined lowestPaidPrice.
C7_CheapestMostExpensive ==
    Compared =>
        LET products == Answer.products
            priced == Priced(products)
        IN IF priced = {}
           THEN Answer.summary.cheapest = Null /\ Answer.summary.mostExpensive = Null
           ELSE /\ \E i \in priced :
                      /\ \A j \in priced : PriceOf(products, i) <= PriceOf(products, j)
                      /\ \A j \in priced : j < i => PriceOf(products, j) > PriceOf(products, i)
                      /\ Answer.summary.cheapest = products[i]
                /\ \E i \in priced :
                      /\ \A j \in priced : PriceOf(products, i) >= PriceOf(products, j)
                      /\ \A j \in priced : j < i => PriceOf(products, j) < PriceOf(products, i)
                      /\ Answer.summary.mostExpensive = products[i]

\* Two products tie on the highest price behind a cheaper one, or two
\* products tie on the only price: the first of the tied ones was chosen
C7_Witness ==
    /\ Compared
    /\ Len(Answer.products) = 2
    /\ Priced(Answer.products) = {1, 2}
    /\ PriceOf(Answer.products, 1) = PriceOf(Answer.products, 2)
    /\ Answer.products[1] # Answer.products[2]
    /\ Answer.summary.cheapest = Answer.products[1]
    /\ Answer.summary.mostExpensive = Answer.products[1]

\* The strictly positive prices among a record's tiers
PositivePrices(item) ==
    IF item.tiers = Undefined THEN {}
    ELSE {item.tiers.array[k].normalizedMonthlyPrice.number :
            k \in {k \in 1..Len(item.tiers.array) :
                     /\ IsNumber(item.tiers.array[k].normalizedMonthlyPrice)
                     /\ item.tiers.array[k].normalizedMonthlyPrice.number > 0}}

\* C8: a product's lowestPaidPrice is the minimum normalizedMonthlyPrice
\* over the record's tiers with a strictly positive price, and undefined
\* when the record has no such tier or no tiers.
C8_LowestPaidPrice ==
    Compared =>
        /\ Len(Answer.products) = Len(dataset)
        /\ \A i \in 1..Len(dataset) :
              LET positive == PositivePrices(dataset[i])
              IN Answer.products[i].lowestPaidPrice =
                    IF positive = {} THEN Undefined ELSE Num(Min(positive))

\* A record lists a tier priced 0 and two paid tiers, the dearer one first
C8_Witness ==
    /\ Compared
    /\ Len(dataset) >= 1
    /\ dataset[1].tiers # Undefined
    /\ Len(dataset[1].tiers.array) = 3
    /\ dataset[1].tiers.array[1].normalizedMonthlyPrice = Num(0)
    /\ dataset[1].tiers.array[2].normalizedMonthlyPrice = Num(10)
    /\ dataset[1].tiers.array[3].normalizedMonthlyPrice = Num(5)
    /\ Answer.products[1].lowestPaidPrice = Num(5)

\* The team cost C9 states for a record, as the answer's text shows it
ExpectedTeamCost(item, teamSize) ==
    LET tiers == IF item.tiers = Undefined THEN <<>> ELSE item.tiers.array
        PerUser(t) == t.pricing # Undefined /\ t.pricing.perUnit = Str("user")
        perUser == SelectSeq(tiers, PerUser)
        Monthly(t) == IF IsNumber(t.normalizedMonthlyPrice)
                      THEN Num(t.normalizedMonthlyPrice.number * teamSize.number)
                      ELSE Null
        Yearly(t) == IF IsNumber(t.normalizedMonthlyPrice)
                     THEN Num(t.normalizedMonthlyPrice.number * teamSize.number * 12)
                     ELSE Null
    IN Arr([k \in 1..Len(perUser) |->
                [tier |-> perUser[k].name, monthly |-> Monthly(perUser[k]),
                 yearly |-> Yearly(perUser[k])]])

\* C9: when a teamSize is supplied (any number, zero and negative ones
\* included) every product carries estimatedTeamCost, one entry per per-user
\* tier in tier order and an empty sequence without such tiers; when none is
\* supplied no product carries estimatedTeamCost.
C9_TeamCost ==
    Compared =>
        \A i \in 1..Len(Answer.products) :
            Answer.products[i].estimatedTeamCost =
                IF IsNumber(request.args.teamSize)
                THEN ExpectedTeamCost(dataset[i], request.args.teamSize)
                ELSE Undefined

\* C10: the answer has one product per record of the dataset, in the
\* dataset's order, and each product's tiers are the record's tiers in
\* their original order.
C10_OrderPreserved ==
    Compared =>
        /\ Len(Answer.products) = Len(dataset)
        /\ \A i \in 1..Len(dataset) :
              /\ Answer.products[i].name = dataset[i].productName
              /\ Answer.products[i].url = dataset[i].url
              /\ Answer.products[i].tiers = dataset[i].tiers

\* The second record is cheaper than the first, and lists its dearer tier
\* before its cheaper one
C10_Witness ==
    /\ Compared
    /\ Len(dataset) = 2
    /\ Priced(Answer.products) = {1, 2}
    /\ PriceOf(Answer.products, 1) > PriceOf(Answer.products, 2)
    /\ dataset[2].tiers # Undefined
    /\ Len(dataset[2].tiers.array) = 2
    /\ dataset[2].tiers.array[1].normalizedMonthlyPrice = Num(10)
    /\ dataset[2].tiers.array[2].normalizedMonthlyPrice = Num(5)
    /\ Answer.products[2].tiers = dataset[2].tiers
    /\ Answer.summary.cheapest = Answer.products[2]

====
